---- MODULE Spec2Model ----
(***************************************************************************)
(* Model of @kazte/criterium: Criteria.create, AndCriteria, OrCriteria,    *)
(* NotCriteria, OrderBy and CriteriaBuilder.                               *)
(*                                                                         *)
(* Items are object references 1..NumItems; an array is a sequence of      *)
(* references (the same reference may occur at several positions).  The    *)
(* attributes of an item are read with Get.  A predicate handed to         *)
(* Criteria.create is the set of items it accepts.                         *)
(***************************************************************************)
EXTENDS Integers, Sequences, FiniteSets, TLC

NumItems == 3
MaxLen == 3
MaxInput == 2
MaxCalls == 3

Items == 1..NumItems

Range(s) == {s[i] : i \in 1..Len(s)}

\* The arrays handed to the criteria classes and to OrderBy, and the
\* arrays handed to a composite of the builder.
Arrays == UNION {[1..n -> Items] : n \in 0..MaxLen}
Inputs == UNION {[1..n -> Items] : n \in 0..MaxInput}

(***************************************************************************)
(* Attribute values.  A number, undefined (the attribute is absent on the  *)
(* item) or a Symbol (a value on which < and > raise a TypeError).         *)
(***************************************************************************)
Num(n) == [kind |-> "number", n |-> n]
Undefined == [kind |-> "undefined", n |-> 0]
SymbolValue == [kind |-> "symbol", n |-> 0]

Properties == {"id", "age", "nick", "tag"}
Directions == {"asc", "desc"}

\* a[this.property]: every item has a distinct id, ages tie between items,
\* nick is absent on some items and tag is a Symbol on some items.
Get(item, property) ==
  CASE property = "id" -> Num(item)
    [] property = "age" -> Num(item % 2)
    [] property = "nick" -> IF item % 3 = 2 THEN Undefined ELSE Num(item)
    [] OTHER -> IF item % 2 = 0 THEN SymbolValue ELSE Num(item)

\* x < y and x > y of the language: undefined converts to NaN, and every
\* comparison with NaN is false.
Less(x, y) == x.kind = "number" /\ y.kind = "number" /\ x.n < y.n
Greater(x, y) == x.kind = "number" /\ y.kind = "number" /\ x.n > y.n

(***************************************************************************)
(* Criteria objects.                                                       *)
(***************************************************************************)
Create(predicate) == [op |-> "create", predicate |-> predicate]
AndCriteria(criteria, otherCriteria) ==
  [op |-> "and", criteria |-> criteria, otherCriteria |-> otherCriteria]
OrCriteria(criteria, otherCriteria) ==
  [op |-> "or", criteria |-> criteria, otherCriteria |-> otherCriteria]
NotCriteria(criteria) == [op |-> "not", criteria |-> criteria]

IsOdd == {i \in Items : i % 2 = 1}
IsLow == {i \in Items : i <= 2}
IsBig == {i \in Items : i >= 3}
Predicates == {IsOdd, IsLow, IsBig}

Leaves == {Create(p) : p \in Predicates}
Simple ==
  Leaves \cup {NotCriteria(a) : a \in Leaves}
         \cup {AndCriteria(a, b) : a \in Leaves, b \in Leaves}
         \cup {OrCriteria(a, b) : a \in Leaves, b \in Leaves}

\* The operands of the binary combinators that are called: one of the two
\* is a leaf, or the two are the same criteria.
Operands ==
  {p \in Simple \X Simple : p[1] \in Leaves \/ p[2] \in Leaves \/ p[1] = p[2]}

\* items.filter(predicate)
Filter(items, predicate) ==
  LET Test(item) == item \in predicate IN SelectSeq(items, Test)

\* criteriaItems.includes(item)
Includes(criteriaItems, item) == item \in Range(criteriaItems)

\* [...new Set(array)]: the first occurrence of every element, in order.
RECURSIVE SetSpread(_)
SetSpread(array) ==
  IF array = <<>> THEN <<>>
  ELSE LET n == Len(array)
           front == SetSpread(SubSeq(array, 1, n - 1))
       IN IF Includes(front, array[n]) THEN front ELSE Append(front, array[n])

\* A slip: the second criteria's matches put first.
OrUnionSecondFirst(firstCriteriaItems, otherCriteriaItems) ==
  SetSpread(otherCriteriaItems \o firstCriteriaItems)

\* A slip: the two results concatenated without the Set.
OrUnionNoSet(firstCriteriaItems, otherCriteriaItems) ==
  firstCriteriaItems \o otherCriteriaItems

\* OrCriteria.meetCriteria, the return statement
OrUnion(firstCriteriaItems, otherCriteriaItems) ==
  SetSpread(firstCriteriaItems \o otherCriteriaItems)

\* A slip: the two arrays swapped.
NotFilterSwapped(items, criteriaItems) ==
  LET Test(item) == ~Includes(items, item) IN SelectSeq(criteriaItems, Test)

\* A slip: the negation left out.
NotFilterNoNegation(items, criteriaItems) ==
  LET Test(item) == Includes(criteriaItems, item) IN SelectSeq(items, Test)

\* NotCriteria.meetCriteria, the return statement
NotFilter(items, criteriaItems) ==
  LET Test(item) == ~Includes(criteriaItems, item) IN SelectSeq(items, Test)

RECURSIVE meetCriteria(_, _)

\* A slip: the body of OrCriteria.meetCriteria copied into AndCriteria.
AndMeetCopiedFromOr(c, items) ==
  LET firstCriteriaItems == meetCriteria(c.criteria, items)
      otherCriteriaItems == meetCriteria(c.otherCriteria, items)
  IN  OrUnion(firstCriteriaItems, otherCriteriaItems)

\* AndCriteria.meetCriteria
AndMeet(c, items) ==
  LET firstCriteriaItems == meetCriteria(c.criteria, items)
  IN  meetCriteria(c.otherCriteria, firstCriteriaItems)

\* OrCriteria.meetCriteria
OrMeet(c, items) ==
  LET firstCriteriaItems == meetCriteria(c.criteria, items)
      otherCriteriaItems == meetCriteria(c.otherCriteria, items)
  IN  OrUnion(firstCriteriaItems, otherCriteriaItems)

\* NotCriteria.meetCriteria
NotMeet(c, items) ==
  LET criteriaItems == meetCriteria(c.criteria, items)
  IN  NotFilter(items, criteriaItems)

\* c.meetCriteria(items), dispatched on the class of c.
meetCriteria(c, items) ==
  CASE c.op = "create" -> Filter(items, c.predicate)
    [] c.op = "and" -> AndMeet(c, items)
    [] c.op = "or" -> OrMeet(c, items)
    [] OTHER -> NotMeet(c, items)

(***************************************************************************)
(* OrderBy.                                                                *)
(***************************************************************************)
NewOrderBy(property, direction) ==
  [property |-> property, direction |-> direction]

\* The optional parameter of the constructor and of setOrderBy.
DefaultDirection(direction) ==
  IF direction = "omitted" THEN "asc" ELSE direction

\* The comparison function handed to items.sort.
compareFn(a, b, property, direction) ==
  IF Less(Get(a, property), Get(b, property))
  THEN (IF direction = "asc" THEN -1 ELSE 1)
  ELSE IF Greater(Get(a, property), Get(b, property))
  THEN (IF direction = "asc" THEN 1 ELSE -1)
  ELSE 0

\* A slip: a comparison that also raises on an absent attribute.
compareThrowsOnAbsent(a, b, property) ==
  Get(a, property).kind # "number" \/ Get(b, property).kind # "number"

\* The comparison function raises when < or > meets a Symbol.
compareThrows(a, b, property) ==
  Get(a, property).kind = "symbol" \/ Get(b, property).kind = "symbol"

\* Array.prototype.sort is stable: insert every element, left to right,
\* before the first element of the sorted prefix it precedes.
RECURSIVE Insert(_, _, _, _)
Insert(item, sorted, property, direction) ==
  IF sorted = <<>> THEN <<item>>
  ELSE IF compareFn(item, Head(sorted), property, direction) < 0
  THEN <<item>> \o sorted
  ELSE <<Head(sorted)>> \o Insert(item, Tail(sorted), property, direction)

RECURSIVE StableSort(_, _, _)
StableSort(items, property, direction) ==
  IF items = <<>> THEN <<>>
  ELSE Insert(items[Len(items)],
              StableSort(SubSeq(items, 1, Len(items) - 1), property, direction),
              property, direction)

\* The language fixes the sort order only for a consistent comparison
\* function: one that divides the elements into totally ordered classes.
Consistent(items, property, direction) ==
  LET S == Range(items)
      c(a, b) == compareFn(a, b, property, direction)
  IN  /\ \A a \in S : c(a, a) = 0
      /\ \A a, b \in S : (c(a, b) = 0) => (c(b, a) = 0)
      /\ \A a, b, d \in S :
            /\ (c(a, b) = 0 /\ c(b, d) = 0) => (c(a, d) = 0)
            /\ (c(a, b) < 0 /\ c(b, d) < 0) => (c(a, d) < 0)
            /\ (c(a, b) > 0 /\ c(b, d) > 0) => (c(a, d) > 0)

Count(s, x) == Cardinality({i \in 1..Len(s) : s[i] = x})

Reorderings(s) ==
  {t \in [1..Len(s) -> Range(s)] : \A x \in Range(s) : Count(t, x) = Count(s, x)}

Reverse(s) == [i \in 1..Len(s) |-> s[Len(s) + 1 - i]]

\* A slip: descending order got by reversing the ascending result.
applyThenReverse(orderBy, items) ==
  IF /\ Len(items) >= 2
     /\ \E a, b \in Range(items) : compareThrows(a, b, orderBy.property)
  THEN {[threw |-> TRUE, value |-> items]}
  ELSE IF Consistent(items, orderBy.property, orderBy.direction)
  THEN {[threw |-> FALSE,
         value |-> IF orderBy.direction = "asc"
                   THEN StableSort(items, orderBy.property, "asc")
                   ELSE Reverse(StableSort(items, orderBy.property, "asc"))]}
  ELSE {[threw |-> FALSE, value |-> t] : t \in Reorderings(items)}

\* OrderBy.apply: the outcomes of items.sort(compareFn).  With two or more
\* elements every element is compared at least once, so a Symbol raises and
\* the array is left as it was; with an inconsistent comparison function
\* the order is implementation-defined.
apply(orderBy, items) ==
  IF /\ Len(items) >= 2
     /\ \E a, b \in Range(items) : compareThrows(a, b, orderBy.property)
  THEN {[threw |-> TRUE, value |-> items]}
  ELSE IF Consistent(items, orderBy.property, orderBy.direction)
  THEN {[threw |-> FALSE,
         value |-> StableSort(items, orderBy.property, orderBy.direction)]}
  ELSE {[threw |-> FALSE, value |-> t] : t \in Reorderings(items)}

(***************************************************************************)
(* CriteriaBuilder.                                                        *)
(***************************************************************************)
\* A slip: reduceRight in place of reduce.
RECURSIVE ReduceRight(_, _)
ReduceRight(chain, items) ==
  IF chain = <<>> THEN items
  ELSE meetCriteria(chain[1], ReduceRight(Tail(chain), items))

\* this.criteriaChain.reduce((res, criteria) => criteria.meetCriteria(res), items)
RECURSIVE Reduce(_, _)
Reduce(chain, items) ==
  IF chain = <<>> THEN items
  ELSE meetCriteria(chain[Len(chain)],
                    Reduce(SubSeq(chain, 1, Len(chain) - 1), items))

\* The closure returned by build(), run against the chain and the ordering
\* directive it reads.  value is the returned array, input the caller's
\* array after the call: with an empty chain reduce returns the caller's
\* array itself, which sort then orders in place.
Composite(chain, order, items) ==
  LET reduced == Reduce(chain, items)
      sameArray == (chain = <<>>)
  IN  IF order = <<>>
      THEN {[threw |-> FALSE, value |-> reduced, input |-> items]}
      ELSE {[threw |-> o.threw, value |-> o.value,
             input |-> IF sameArray THEN o.value ELSE items] :
              o \in apply(order[1], reduced)}

VARIABLES
  criteriaChain,  \* CriteriaBuilder.criteriaChain
  orderBy,        \* CriteriaBuilder.orderBy: <<>> while unset, else <<OrderBy>>
  built,          \* the composites returned by build(), each with the chain
                  \* and directive the builder held when it was built
  calls,          \* the builder calls made so far, in order
  sorter,         \* a standalone OrderBy: <<>> before construction
  self,           \* the object whose meetCriteria / apply ran last
  items,          \* the caller's array
  orig,           \* the caller's array as it was before the last call
  result,         \* the array the call returned
  threw           \* whether the call raised instead of returning

vars == <<criteriaChain, orderBy, built, calls, sorter, self, orig, items,
          result, threw>>

builderVars == <<criteriaChain, orderBy, built, calls>>
callVars == <<self, orig, items, result, threw>>

\* A new builder, no OrderBy yet, no call made yet, and the caller's array.
Start(arrays) ==
  /\ criteriaChain = <<>>
  /\ orderBy = <<>>
  /\ built = <<>>
  /\ calls = <<>>
  /\ sorter = <<>>
  /\ self = [op |-> "none"]
  /\ items \in arrays
  /\ orig = items
  /\ result = <<>>
  /\ threw = FALSE

Init == Start(Inputs)

\* The criteria handed to addCriteria and the arguments handed to setOrderBy.
ChainCriteria ==
  {OrCriteria(Create(IsOdd), Create(IsLow)),
   OrCriteria(Create(IsLow), Create(IsOdd))}
OrderArguments ==
  {<<"age", "omitted">>, <<"nick", "desc">>}

AddCriteria(criteria) ==
  /\ Len(calls) < MaxCalls
  /\ criteriaChain' = Append(criteriaChain, criteria)
  /\ calls' = Append(calls, [call |-> "addCriteria", criteria |-> criteria])
  /\ UNCHANGED <<orderBy, built, sorter, callVars>>

SetOrderBy(property, direction) ==
  /\ Len(calls) < MaxCalls
  /\ orderBy' = <<NewOrderBy(property, DefaultDirection(direction))>>
  /\ calls' = Append(calls, [call |-> "setOrderBy", property |-> property,
                                direction |-> direction])
  /\ UNCHANGED <<criteriaChain, built, sorter, callVars>>

Build ==
  /\ Len(calls) < MaxCalls
  /\ built' = Append(built, [criteriaChain |-> criteriaChain,
                               orderBy |-> orderBy])
  /\ calls' = Append(calls, [call |-> "build"])
  /\ UNCHANGED <<criteriaChain, orderBy, sorter, callVars>>

\* built[k].meetCriteria(items): the closure reads this.criteriaChain and
\* this.orderBy of the builder when it runs.
Evaluate(k) ==
  /\ k \in 1..Len(built)
  /\ \E o \in Composite(criteriaChain, orderBy, items) :
        /\ self' = [op |-> "composite", index |-> k]
        /\ orig' = items
        /\ items' = o.input
        /\ result' = IF o.threw THEN <<>> ELSE o.value
        /\ threw' = o.threw
  /\ UNCHANGED <<builderVars, sorter>>

Next ==
  \/ \E c \in ChainCriteria : AddCriteria(c)
  \/ \E a \in OrderArguments : SetOrderBy(a[1], a[2])
  \/ Build
  \/ \E k \in 1..MaxCalls : Evaluate(k)

Spec == Init /\ [][Next]_vars

(***************************************************************************)
(* The criteria classes on their own.                                      *)
(***************************************************************************)
\* c.meetCriteria(items) has returned; each class returns a new array and
\* leaves the caller's array alone.
Returns(c) ==
  /\ self' = c
  /\ orig' = items
  /\ items' = items
  /\ result' = meetCriteria(c, items)
  /\ threw' = FALSE
  /\ UNCHANGED <<builderVars, sorter>>

CreateMeetCriteria(predicate) ==
  /\ self.op = "none"
  /\ Returns(Create(predicate))

AndMeetCriteria(a, b) ==
  /\ self.op = "none"
  /\ Returns(AndCriteria(a, b))

OrMeetCriteria(a, b) ==
  /\ self.op = "none"
  /\ Returns(OrCriteria(a, b))

NotMeetCriteria(a) ==
  /\ self.op = "none"
  /\ Returns(NotCriteria(a))

NextCriteria ==
  \/ \E p \in Predicates : CreateMeetCriteria(p)
  \/ \E p \in Operands : AndMeetCriteria(p[1], p[2])
  \/ \E p \in Operands : OrMeetCriteria(p[1], p[2])
  \/ \E a \in Simple : NotMeetCriteria(a)

InitCriteria == Start(Arrays)

SpecCriteria == InitCriteria /\ [][NextCriteria]_vars

(***************************************************************************)
(* OrderBy on its own.                                                     *)
(***************************************************************************)
Construct(property, direction) ==
  /\ sorter' = <<NewOrderBy(property, DefaultDirection(direction))>>
  /\ UNCHANGED <<builderVars, callVars>>

\* sorter.apply(items) sorts the caller's array in place and returns it.
Apply ==
  /\ sorter # <<>>
  /\ \E o \in apply(sorter[1], items) :
        /\ self' = [op |-> "orderBy", property |-> sorter[1].property,
                      direction |-> sorter[1].direction]
        /\ orig' = items
        /\ items' = o.value
        /\ result' = IF o.threw THEN <<>> ELSE o.value
        /\ threw' = o.threw
  /\ UNCHANGED <<builderVars, sorter>>

NextOrder ==
  \/ \E p \in Properties, d \in Directions \cup {"omitted"} : Construct(p, d)
  \/ Apply

InitOrder == Start(Arrays)

SpecOrder == InitOrder /\ [][NextOrder]_vars

(***************************************************************************)
(* Properties.                                                             *)
(***************************************************************************)
Distinct(s) == \A i, j \in 1..Len(s) : s[i] = s[j] => i = j

\* The items of s, in the order of s, that occur in t.
Within(s, t) == LET Test(x) == x \in Range(t) IN SelectSeq(s, Test)
Without(s, t) == LET Test(x) == x \notin Range(t) IN SelectSeq(s, Test)

RECURSIVE OrFree(_)
OrFree(c) ==
  CASE c.op = "create" -> TRUE
    [] c.op = "and" -> OrFree(c.criteria) /\ OrFree(c.otherCriteria)
    [] c.op = "or" -> FALSE
    [] OTHER -> OrFree(c.criteria)

IsCriteria == self.op \in {"create", "and", "or", "not"}

\* What the last call handed back is one of the outcomes in the set.
Returned(outcomes) ==
  \E o \in outcomes :
    /\ threw = o.threw
    /\ result = IF o.threw THEN <<>> ELSE o.value

\* C1: a composite evaluates by the chain and the ordering directive the
\* builder held when build() returned it, whatever addCriteria / setOrderBy
\* calls were made on the builder afterwards.
C1_CompositeUsesSnapshot ==
  self.op = "composite" =>
    Returned(Composite(built[self.index].criteriaChain,
                       built[self.index].orderBy, orig))

\* C2: a call of meetCriteria leaves the caller's array as it was.
C2_InputUntouched ==
  (IsCriteria \/ self.op = "composite") => items = orig

\* C3 as stated: on pairwise-distinct input OrCriteria(a, b) returns a's
\* matches in the order of the input, then b's matches that a did not
\* match, in the order of the input.
C3_OrInInputOrder ==
  (self.op = "or" /\ Distinct(orig)) =>
    LET A == meetCriteria(self.criteria, orig)
        B == meetCriteria(self.otherCriteria, orig)
    IN  result = Within(orig, A) \o Within(orig, Without(B, A))

\* C3 amended: on pairwise-distinct input OrCriteria(a, b) returns what a
\* returns for the input, then what b returns for the input (not for a's
\* output) less a's items, each in the order a and b return them; that is
\* the order of the input when a and b hold no OrCriteria, and <<X, Z, Y>>
\* in the example.
C3_OrFirstThenSecond ==
  (self.op = "or" /\ Distinct(orig)) =>
    LET A == meetCriteria(self.criteria, orig)
        B == meetCriteria(self.otherCriteria, orig)
    IN  /\ result = A \o Without(B, A)
        /\ (OrFree(self.criteria) /\ OrFree(self.otherCriteria)) =>
              result = Within(orig, A) \o Within(orig, Without(B, A))
        /\ (orig = <<1, 2, 3>> /\ self.criteria = Create(IsOdd)
                               /\ self.otherCriteria = Create(IsLow)) =>
              result = <<1, 3, 2>>

C3_Witness ==
  /\ self.op = "or" /\ orig = <<1, 2, 3>>
  /\ self.criteria = Create(IsOdd) /\ self.otherCriteria = Create(IsLow)
  /\ result = <<1, 3, 2>>

\* C4 as stated: NotCriteria(NotCriteria(c)) returns the same sequence as c.
C4_DoubleNegation ==
  IsCriteria => meetCriteria(NotCriteria(NotCriteria(self)), orig) = result

\* C4 amended: NotCriteria(NotCriteria(c)) returns the items of the input
\* that occur in what c returns, every occurrence, in the order of the
\* input; that is the sequence c returns when c holds no OrCriteria.
C4_DoubleNegationOrFree ==
  /\ IsCriteria =>
        /\ meetCriteria(NotCriteria(NotCriteria(self)), orig)
             = Within(orig, result)
        /\ OrFree(self) =>
             meetCriteria(NotCriteria(NotCriteria(self)), orig) = result
  /\ (self.op = "not" /\ self.criteria.op = "not"
                      /\ OrFree(self.criteria.criteria)) =>
        result = meetCriteria(self.criteria.criteria, orig)

C4_Witness ==
  /\ self.op = "not" /\ self.criteria.op = "not"
  /\ result # <<>> /\ result # orig
  /\ \E i, j \in 1..Len(result) : i # j /\ result[i] = result[j]

\* C8: for predicates a and b, NotCriteria(OrCriteria(a, b)) returns the
\* items of the input that satisfy neither predicate, in the order of the
\* input, which is what AndCriteria(NotCriteria(a), NotCriteria(b)) returns.
C8_DeMorgan ==
  (self.op = "not" /\ self.criteria.op = "or") =>
    LET a == self.criteria.criteria
        b == self.criteria.otherCriteria
        Neither(x) == x \notin a.predicate /\ x \notin b.predicate
    IN  /\ result = SelectSeq(orig, Neither)
        /\ result = meetCriteria(AndCriteria(NotCriteria(a), NotCriteria(b)),
                                  orig)

C8_Witness ==
  /\ self.op = "not" /\ self.criteria.op = "or"
  /\ self.criteria.criteria # self.criteria.otherCriteria
  /\ Len(result) >= 2 /\ Len(result) < Len(orig)

\* C9: AndCriteria(c, c) returns the same sequence as c.
C9_AndIdempotent ==
  /\ (self.op = "and" /\ self.criteria = self.otherCriteria) =>
        result = meetCriteria(self.criteria, orig)
  /\ IsCriteria => meetCriteria(AndCriteria(self, self), orig) = result

C9_Witness ==
  /\ self.op = "and" /\ self.criteria = self.otherCriteria
  /\ self.criteria.op = "or"
  /\ result # <<>> /\ result # Within(orig, result)

FirstIndex(s, x) == CHOOSE i \in 1..Len(s) : s[i] = x /\ \A j \in 1..(i - 1) : s[j] # x

ChainOf(history) ==
  LET IsAdd(e) == e.call = "addCriteria"
      adds == SelectSeq(history, IsAdd)
  IN  [i \in 1..Len(adds) |-> adds[i].criteria]

OrderOf(history) ==
  LET IsOrder(e) == e.call = "setOrderBy"
      orders == SelectSeq(history, IsOrder)
      last == orders[Len(orders)]
  IN  IF orders = <<>> THEN <<>>
      ELSE <<[property |-> last.property,
              direction |-> IF last.direction = "desc" THEN "desc" ELSE "asc"]>>

RECURSIVE FoldLeft(_, _)
FoldLeft(chain, s) ==
  IF chain = <<>> THEN s
  ELSE FoldLeft(Tail(chain), meetCriteria(Head(chain), s))

Reference(history, s) ==
  IF OrderOf(history) = <<>>
  THEN {[threw |-> FALSE, value |-> FoldLeft(ChainOf(history), s)]}
  ELSE apply(OrderOf(history)[1], FoldLeft(ChainOf(history), s))

JustBuilt ==
  /\ self.op = "composite"
  /\ calls # <<>>
  /\ calls[Len(calls)].call = "build"
  /\ self.index = Len(built)

\* C7: a composite evaluated after the build() that returned it, with no
\* builder call in between, returns the input folded through the added
\* criteria in call order and then ordered by the last setOrderBy call
\* (ascending when its direction was omitted); with no criteria and no
\* setOrderBy it returns the input as it is.
C7_CompositeIsFoldThenOrder ==
  JustBuilt =>
    /\ Returned(Reference(calls, orig))
    /\ (ChainOf(calls) = <<>> /\ OrderOf(calls) = <<>>) =>
          (result = orig /\ ~threw)

C7_Witness ==
  /\ JustBuilt
  /\ Len(criteriaChain) = 2
  /\ criteriaChain[1] # criteriaChain[2]
  /\ Len(result) = 2
  /\ result # orig

Has(s, property, kind) ==
  \E i \in 1..Len(s) : Get(s[i], property).kind = kind

\* The items of s whose attribute is the number n, in the order of s.
WithValue(s, property, n) ==
  LET Test(x) == Get(x, property) = Num(n) IN SelectSeq(s, Test)

Values(s, property) == {Get(s[i], property).n : i \in 1..Len(s)}

AppliedToNumbers ==
  /\ self.op = "orderBy"
  /\ ~Has(orig, self.property, "undefined")
  /\ ~Has(orig, self.property, "symbol")

\* C5: on items that all carry a number under the selected attribute,
\* OrderBy.apply returns a permutation of the input, non-decreasing in the
\* attribute for asc and non-increasing for desc, in which items of equal
\* attribute keep the relative order they had in the input, for both
\* directions.
C5_StableSort ==
  AppliedToNumbers =>
    /\ ~threw
    /\ Len(result) = Len(orig)
    /\ \A x \in Items : Count(result, x) = Count(orig, x)
    /\ \A i \in 1..(Len(result) - 1) :
          IF self.direction = "asc"
          THEN Get(result[i], self.property).n <= Get(result[i + 1], self.property).n
          ELSE Get(result[i], self.property).n >= Get(result[i + 1], self.property).n
    /\ \A n \in Values(orig, self.property) :
          WithValue(result, self.property, n) = WithValue(orig, self.property, n)

C5_Witness ==
  /\ AppliedToNumbers
  /\ self.property = "age" /\ self.direction = "desc"
  /\ orig = <<2, 1, 3>> /\ result = <<1, 3, 2>>

AppliedToAbsent ==
  /\ self.op = "orderBy"
  /\ Has(orig, self.property, "undefined")

\* C6 as stated: OrderBy.apply on a sequence with an item that lacks the
\* selected attribute raises.
C6_AbsentAttributeRaises ==
  AppliedToAbsent => threw

\* C6 amended: an attribute absent on some item is rejected neither when
\* the OrderBy is constructed nor when it is applied: the absent value is
\* neither less nor greater than any other, and apply returns the items of
\* the input in some order (unless another item's value makes the
\* comparison itself raise).
C6_AbsentAttributeSorts ==
  (AppliedToAbsent /\ ~Has(orig, self.property, "symbol")) =>
    /\ ~threw
    /\ Len(result) = Len(orig)
    /\ \A x \in Items : Count(result, x) = Count(orig, x)
    /\ items = result
    /\ \A a, b \in Range(orig) :
          Get(a, self.property) = Undefined =>
            compareFn(a, b, self.property, self.direction) = 0

C6_Witness ==
  /\ AppliedToAbsent
  /\ orig = <<3, 2, 1>>
  /\ ~threw
  /\ Len(result) = 3

====
